---- MODULE Spec2Model ----
(***************************************************************************)
(* GSTR1 workbook generation of src/services/api.ts: parseCSV,             *)
(* getSheetName, cleanPlaceOfSupply, trimAll, appendDataToSheet and        *)
(* generateGSTR1Excel (Spec; SpecTwice calls it twice with the same        *)
(* arguments; SpecCalls calls the pure functions on their own), and the    *)
(* upload of src/pages/customer/Dashboard.tsx, handleUpload, with request  *)
(* of src/services/api.ts (SpecUpload).                                    *)
(*                                                                         *)
(* JavaScript strings are TLA+ strings; Len, SubSeq and \o act on them.    *)
(* A cell address is the pair <<r, c>> of its zero-based row and column.   *)
(* A JavaScript object is the sequence of its <<key, value>> entries in    *)
(* insertion order.                                                        *)
(***************************************************************************)
EXTENDS Integers, Sequences, FiniteSets, TLC

VARIABLES
    pc,        \* position inside generateGSTR1Excel: "load", "files", "done",
               \* or "failed" once the call has thrown
    template,  \* the argument templateBuffer, as what XLSX.read makes of it
    csvFiles,  \* the argument csvFiles: a sequence of [name, content]
    workbook,  \* the XLSX.WorkBook: SheetNames and Sheets
    log,       \* history: one entry per loop iteration of generateGSTR1Excel
    output,    \* the workbook handed to XLSX.write, once written
    first,     \* history: how an earlier call with these arguments ended
    call,      \* a call of one of the pure functions: <<>> or <<function, argument>>
    ret,       \* what that call returned: <<>> or <<value>>
    upload,    \* handleUpload of src/pages/customer/Dashboard.tsx
    isRefreshing,        \* api.ts line 6
    refreshSubscribers,  \* api.ts line 7: the queued callbacks, each named by
                         \* the call of request that queued it
    requests,  \* the concurrent calls of request: where each one is and, as
               \* history, what it has sent and received
    refresh_token        \* sessionStorage holds the item 'refresh_token'

vars == <<pc, template, csvFiles, workbook, log, output, first, call, ret, upload,
          isRefreshing, refreshSubscribers, requests, refresh_token>>

\* The variables of the token refresh.
refreshVars == <<isRefreshing, refreshSubscribers, requests, refresh_token>>

\* The variables outside generateGSTR1Excel.
others == <<call, ret, upload, refreshVars>>

\* Number of input files of one generateGSTR1Excel call that the model explores.
MaxFiles == 2

\* Number of concurrent calls of request that the model explores.
MaxRequests == 3

\* Number of pieces a file name passed to getSheetName is put together from.
MaxPieces == 2

\* Length of the lines passed to parseLine.
MaxLine == 5

\* Number of lines below the header line of a text passed to parseCSV.
MaxRows == 2

\* Number of files selected for one handleUpload.
MaxUploads == 2

-----------------------------------------------------------------------------
(* String primitives of the JavaScript runtime used by the code *)

At(s, i) == SubSeq(s, i, i)

WhiteSpace == {" ", "\t", "\n", "\r"}

Digits == {"0", "1", "2", "3", "4", "5", "6", "7", "8", "9"}

RECURSIVE TrimStart(_)
TrimStart(s) ==
    IF Len(s) > 0 /\ At(s, 1) \in WhiteSpace
    THEN TrimStart(SubSeq(s, 2, Len(s)))
    ELSE s

RECURSIVE TrimEnd(_)
TrimEnd(s) ==
    IF Len(s) > 0 /\ At(s, Len(s)) \in WhiteSpace
    THEN TrimEnd(SubSeq(s, 1, Len(s) - 1))
    ELSE s

\* String.prototype.trim
Trim(s) == TrimEnd(TrimStart(s))

LowerLetters == "abcdefghijklmnopqrstuvwxyz"

UpperLetters == "ABCDEFGHIJKLMNOPQRSTUVWXYZ"

UpperChar(ch) ==
    IF \E i \in 1..Len(LowerLetters) : At(LowerLetters, i) = ch
    THEN At(UpperLetters, CHOOSE i \in 1..Len(LowerLetters) : At(LowerLetters, i) = ch)
    ELSE ch

LowerChar(ch) ==
    IF \E i \in 1..Len(UpperLetters) : At(UpperLetters, i) = ch
    THEN At(LowerLetters, CHOOSE i \in 1..Len(UpperLetters) : At(UpperLetters, i) = ch)
    ELSE ch

RECURSIVE ToUpperCase(_)
ToUpperCase(s) ==
    IF Len(s) = 0 THEN ""
    ELSE UpperChar(At(s, 1)) \o ToUpperCase(SubSeq(s, 2, Len(s)))

RECURSIVE ToLowerCase(_)
ToLowerCase(s) ==
    IF Len(s) = 0 THEN ""
    ELSE LowerChar(At(s, 1)) \o ToLowerCase(SubSeq(s, 2, Len(s)))

\* String.prototype.includes
Includes(s, sub) ==
    \E i \in 1..(Len(s) - Len(sub) + 1) : SubSeq(s, i, i + Len(sub) - 1) = sub

\* String.prototype.replace(/,/g, '')
RECURSIVE RemoveCommas(_)
RemoveCommas(s) ==
    IF Len(s) = 0 THEN ""
    ELSE (IF At(s, 1) = "," THEN "" ELSE At(s, 1)) \o RemoveCommas(SubSeq(s, 2, Len(s)))

\* Length of the longest run of characters of `set` in s starting at index i.
RECURSIVE RunLen(_, _, _)
RunLen(s, i, set) ==
    IF i <= Len(s) /\ At(s, i) \in set THEN 1 + RunLen(s, i + 1, set) ELSE 0

\* String.prototype.split(/\r?\n/)
RECURSIVE SplitLines(_)
SplitLines(s) ==
    LET nl == {i \in 1..Len(s) : At(s, i) = "\n"}
    IN  IF nl = {} THEN <<s>>
        ELSE LET i == CHOOSE j \in nl : \A k \in nl : j <= k
                 e == IF i > 1 /\ At(s, i - 1) = "\r" THEN i - 2 ELSE i - 1
             IN  <<SubSeq(s, 1, e)>> \o SplitLines(SubSeq(s, i + 1, Len(s)))

-----------------------------------------------------------------------------
(* JavaScript objects with string keys: sequences of <<key, value>> *)

HasKey(obj, k) == \E i \in 1..Len(obj) : obj[i][1] = k

\* obj[k], for a key the object has
Get(obj, k) == obj[CHOOSE i \in 1..Len(obj) : obj[i][1] = k][2]

\* The number written by a string of digits.
RECURSIVE NatOf(_)
NatOf(d) ==
    IF Len(d) = 0 THEN 0
    ELSE 10 * NatOf(SubSeq(d, 1, Len(d) - 1))
            + (CHOOSE n \in 0..9 : At("0123456789", n + 1) = At(d, Len(d)))

\* The key is an integer index: "0", or digits without a leading zero. Such
\* keys come first in an object, in ascending order, whatever the order of
\* insertion. Keys of ten digits and more are outside the values explored.
IsArrayIndex(k) ==
    /\ Len(k) >= 1 /\ Len(k) <= 9
    /\ \A i \in 1..Len(k) : At(k, i) \in Digits
    /\ Len(k) = 1 \/ At(k, 1) /= "0"

\* obj[k] = v that leaves a key the object already has as it is.
PutKeepingFirst(obj, k, v) ==
    IF HasKey(obj, k) THEN obj ELSE Append(obj, <<k, v>>)

\* obj[k] = v
Put(obj, k, v) ==
    IF HasKey(obj, k)
    THEN [i \in 1..Len(obj) |-> IF obj[i][1] = k THEN <<k, v>> ELSE obj[i]]
    ELSE IF IsArrayIndex(k)
    THEN LET n == Cardinality({i \in 1..Len(obj) :
                     IsArrayIndex(obj[i][1]) /\ NatOf(obj[i][1]) < NatOf(k)})
         IN  SubSeq(obj, 1, n) \o << <<k, v>> >> \o SubSeq(obj, n + 1, Len(obj))
    ELSE Append(obj, <<k, v>>)

\* Object.keys
Keys(obj) == [i \in 1..Len(obj) |-> obj[i][1]]

-----------------------------------------------------------------------------
(* Numbers. A JavaScript number is held as its canonical decimal string     *)
(* (Number.prototype.toString): "1234.5" for 1234.50, "7" for 007, "NaN".   *)

NaN == "NaN"

RECURSIVE StripLeadingZeros(_)
StripLeadingZeros(d) ==
    IF Len(d) > 1 /\ At(d, 1) = "0" THEN StripLeadingZeros(SubSeq(d, 2, Len(d))) ELSE d

RECURSIVE StripTrailingZeros(_)
StripTrailingZeros(d) ==
    IF Len(d) > 0 /\ At(d, Len(d)) = "0"
    THEN StripTrailingZeros(SubSeq(d, 1, Len(d) - 1))
    ELSE d

\* The number with the given sign, integer digits and fraction digits.
NumberOf(neg, intDigits, fracDigits) ==
    LET ip == StripLeadingZeros(IF intDigits = "" THEN "0" ELSE intDigits)
        fp == StripTrailingZeros(fracDigits)
        zero == ip = "0" /\ fp = ""
    IN  (IF neg /\ ~zero THEN "-" ELSE "")
            \o ip \o (IF fp = "" THEN "" ELSE "." \o fp)

\* parseFloat: the longest prefix  ws* [+-] digits [. digits]  of the string, NaN
\* when it holds no digit. Exponents and "Infinity" are outside the alphabet
\* of the values explored.
ParseFloat(str) ==
    LET s    == TrimStart(str)
        sgn  == IF Len(s) > 0 /\ At(s, 1) \in {"-", "+"} THEN 1 ELSE 0
        neg  == sgn = 1 /\ At(s, 1) = "-"
        d1   == RunLen(s, sgn + 1, Digits)
        p1   == sgn + 1 + d1
        dot  == p1 <= Len(s) /\ At(s, p1) = "."
        d2   == IF dot THEN RunLen(s, p1 + 1, Digits) ELSE 0
    IN  IF d1 = 0 /\ d2 = 0 THEN NaN
        ELSE NumberOf(neg, SubSeq(s, sgn + 1, sgn + d1),
                      IF dot THEN SubSeq(s, p1 + 1, p1 + d2) ELSE "")

\* String(finalValue).match(/^-?\d+\.?\d*$/)
MatchesNumeric(s) ==
    LET p0 == IF Len(s) > 0 /\ At(s, 1) = "-" THEN 2 ELSE 1
        d1 == RunLen(s, p0, Digits)
        p1 == p0 + d1
        p2 == IF p1 <= Len(s) /\ At(s, p1) = "." THEN p1 + 1 ELSE p1
        d2 == RunLen(s, p2, Digits)
    IN  d1 >= 1 /\ p2 + d2 = Len(s) + 1

-----------------------------------------------------------------------------
(* src/services/api.ts, lines 182-320 *)

columnMappings ==
    [b2b |-> << <<"GSTIN/UIN of Recipient", "GSTIN/UIN">>,
                <<"Invoice Number", "Invoice No">>,
                <<"Invoice date", "Date of Invoice">>,
                <<"Invoice Value", "Invoice Value">>,
                <<"Rate", "GST%">>,
                <<"Taxable Value", "Taxable Value">>,
                <<"Cess Amount", "CESS">>,
                <<"Place Of Supply", "Place Of Supply">>,
                <<"Reverse Charge", "RCM Applicable">>,
                <<"Invoice Type", "Invoice Type">>,
                <<"E-Commerce GSTIN", "E-Commerce GSTIN">> >>,
     b2cl |-> << <<"Invoice Number", "Invoice No">>,
                 <<"Invoice date", "Date of Invoice">>,
                 <<"Invoice Value", "Invoice Value">>,
                 <<"Place Of Supply", "Place Of Supply">>,
                 <<"Rate", "GST%">>,
                 <<"Taxable Value", "Taxable Value">>,
                 <<"Cess Amount", "CESS">>,
                 <<"E-Commerce GSTIN", "E-Commerce GSTIN">> >>,
     b2cs |-> << <<"Type", "Type">>,
                 <<"Place Of Supply", "Place Of Supply">>,
                 <<"Rate", "GST%">>,
                 <<"Taxable Value", "Taxable Value">>,
                 <<"Cess Amount", "CESS">>,
                 <<"E-Commerce GSTIN", "E-Commerce GSTIN">> >>,
     export |-> << <<"Export Type", "Export Type">>,
                   <<"Invoice Number", "Invoice No">>,
                   <<"Invoice date", "Date of Invoice">>,
                   <<"Invoice Value", "Invoice Value">>,
                   <<"Port Code", "Port Code">>,
                   <<"Shipping Bill Number", "Shipping Bill No">>,
                   <<"Shipping Bill Date", "Shipping Bill Date">>,
                   <<"Rate", "GST%">>,
                   <<"Taxable Value", "Taxable Value">> >>,
     Nil_exempt_NonGST |->
                << <<"Description", "Description">>,
                   <<"Nil Rated Supplies", "Nil Rated Supplies">>,
                   <<"Exempted (other than nil rated/non GST supply)",
                     "Exempted (other than nil rated/non GST supply)">>,
                   <<"Non-GST supplies", "Non-GST Supplies">> >>,
     cdnr |-> << <<"GSTIN/UIN of Recipient", "GSTIN/UIN">>,
                 <<"Note Number", "Dr./ Cr. No.">>,
                 <<"Note Date", "Dr./Cr. Date">>,
                 <<"Note Type", "Type of note                (Dr/ Cr)">>,
                 <<"Place Of Supply", "Place of supply">>,
                 <<"Reverse Charge", "RCM">>,
                 <<"Note Supply Type", "Invoice Type">>,
                 <<"Note Value", "Dr./Cr. Value">>,
                 <<"Rate", "GST%">>,
                 <<"Taxable Value", "Taxable Value">>,
                 <<"Cess Amount", "CESS">> >>,
     cdnur |-> << <<"UR Type", "Supply Type">>,
                  <<"Note/Refund Voucher Number", "Dr./ Cr. Note No.">>,
                  <<"Note/Refund Voucher date", "Dr./ Cr. Note Date">>,
                  <<"Document Type", "Type of note (Dr./ Cr.)">>,
                  <<"Place Of Supply", "Place of supply">>,
                  <<"Note/Refund Voucher Value", "Dr./Cr. Note Value">>,
                  <<"Rate", "GST%">>,
                  <<"Taxable Value", "Taxable Value">>,
                  <<"Cess Amount", "CESS">> >>,
     hsn |-> << <<"Type", "Type">>,
                <<"HSN", "HSN">>,
                <<"Description", "Description">>,
                <<"UQC", "UQC">>,
                <<"Total Quantity", "Total Quantity">>,
                <<"Total Value", "Total Value">>,
                <<"Rate", "Rate">>,
                <<"Taxable Value", "Total Taxable Value">>,
                <<"Integrated Tax Amount", "IGST">>,
                <<"Central Tax Amount", "CGST">>,
                <<"State/UT Tax Amount", "SGST">>,
                <<"Cess Amount", "CESS">> >>]

\* The result "null" of getSheetName.
Null == "null"

\* getSheetName with a default category in place of null.
getSheetNameDefaulting(fileName) ==
    LET u == ToUpperCase(fileName)
    IN  IF Includes(u, "HSN") THEN "hsn"
        ELSE IF Includes(u, "B2CL") THEN "b2cl"
        ELSE IF Includes(u, "B2CS") THEN "b2cs"
        ELSE IF Includes(u, "EXP") THEN "export"
        ELSE IF Includes(u, "EXEMP") THEN "Nil_exempt_NonGST"
        ELSE IF Includes(u, "CDNUR") THEN "cdnur"
        ELSE IF Includes(u, "CDNR") THEN "cdnr"
        ELSE "b2b"

\* getSheetName with the test for B2B moved to the front.
getSheetNameB2BFirst(fileName) ==
    LET u == ToUpperCase(fileName)
    IN  IF Includes(u, "B2B") THEN "b2b"
        ELSE IF Includes(u, "HSN") THEN "hsn"
        ELSE IF Includes(u, "B2CL") THEN "b2cl"
        ELSE IF Includes(u, "B2CS") THEN "b2cs"
        ELSE IF Includes(u, "EXP") THEN "export"
        ELSE IF Includes(u, "EXEMP") THEN "Nil_exempt_NonGST"
        ELSE IF Includes(u, "CDNUR") THEN "cdnur"
        ELSE IF Includes(u, "CDNR") THEN "cdnr"
        ELSE Null

getSheetName(fileName) ==
    LET u == ToUpperCase(fileName)
    IN  IF Includes(u, "HSN") THEN "hsn"
        ELSE IF Includes(u, "B2CL") THEN "b2cl"
        ELSE IF Includes(u, "B2CS") THEN "b2cs"
        ELSE IF Includes(u, "B2B") THEN "b2b"
        ELSE IF Includes(u, "EXP") THEN "export"
        ELSE IF Includes(u, "EXEMP") THEN "Nil_exempt_NonGST"
        ELSE IF Includes(u, "CDNUR") THEN "cdnur"
        ELSE IF Includes(u, "CDNR") THEN "cdnr"
        ELSE Null

\* value.toString().trim().replace(/^\d+-\s*/, '').trim()
cleanPlaceOfSupply(value) ==
    LET s == Trim(value)
        d == RunLen(s, 1, Digits)
    IN  IF d >= 1 /\ d + 1 <= Len(s) /\ At(s, d + 1) = "-"
        THEN Trim(SubSeq(s, d + 2 + RunLen(s, d + 2, WhiteSpace), Len(s)))
        ELSE Trim(s)

trimAll(obj) == [i \in 1..Len(obj) |-> <<obj[i][1], Trim(obj[i][2])>>]

\* The loop of parseLine with a double quote dropped without toggling inQuotes.
RECURSIVE parseLineFromNoToggle(_, _, _, _, _)
parseLineFromNoToggle(line, i, current, inQuotes, result) ==
    IF i > Len(line) THEN Append(result, Trim(current))
    ELSE LET char == At(line, i)
         IN  IF char = "\""
             THEN parseLineFromNoToggle(line, i + 1, current, inQuotes, result)
             ELSE IF char = "," /\ ~inQuotes
             THEN parseLineFromNoToggle(line, i + 1, "", inQuotes, Append(result, Trim(current)))
             ELSE parseLineFromNoToggle(line, i + 1, current \o char, inQuotes, result)

\* lines 298-309: the loop over the characters of the line, from index i on
RECURSIVE parseLineFrom(_, _, _, _, _)
parseLineFrom(line, i, current, inQuotes, result) ==
    IF i > Len(line) THEN Append(result, Trim(current))
    ELSE LET char == At(line, i)
         IN  IF char = "\""
             THEN parseLineFrom(line, i + 1, current, ~inQuotes, result)
             ELSE IF char = "," /\ ~inQuotes
             THEN parseLineFrom(line, i + 1, "", inQuotes, Append(result, Trim(current)))
             ELSE parseLineFrom(line, i + 1, current \o char, inQuotes, result)

parseLine(line) == parseLineFrom(line, 1, "", FALSE, <<>>)

\* RowFrom with a header name that the row already has left as it is.
RECURSIVE RowFromFirstWins(_, _, _, _)
RowFromFirstWins(headers, values, i, row) ==
    IF i > Len(headers) THEN row
    ELSE RowFromFirstWins(headers, values, i + 1,
                          IF HasKey(row, headers[i]) THEN row
                          ELSE Put(row, headers[i],
                                   IF i <= Len(values) THEN values[i] ELSE ""))

\* headers.forEach((h, i) => { row[h] = values[i] || ''; })
RECURSIVE RowFrom(_, _, _, _)
RowFrom(headers, values, i, row) ==
    IF i > Len(headers) THEN row
    ELSE RowFrom(headers, values, i + 1,
                 Put(row, headers[i], IF i <= Len(values) THEN values[i] ELSE ""))

\* parseCSV without text.trim() and without the filter of blank lines.
parseCSVKeepingBlankLines(text) ==
    LET lines == SplitLines(text)
    IN  IF Len(lines) <= 1 THEN <<>>
        ELSE LET headers == parseLine(lines[1])
                 body    == Tail(lines)
             IN  [k \in 1..Len(body) |-> RowFrom(headers, parseLine(body[k]), 1, <<>>)]

parseCSV(text) ==
    LET lines == SplitLines(Trim(text))
    IN  IF Len(lines) <= 1 THEN <<>>
        ELSE LET headers == parseLine(lines[1])
                 body    == SelectSeq(Tail(lines), LAMBDA l : Trim(l) /= "")
             IN  [k \in 1..Len(body) |-> RowFrom(headers, parseLine(body[k]), 1, <<>>)]

-----------------------------------------------------------------------------
(* Worksheets. A sheet is [ref, cells]: ref is <<>> when the sheet has no   *)
(* '!ref', else <<range>> with range = [s |-> [r, c], e |-> [r, c]]; cells  *)
(* maps the addresses <<r, c>> that hold a cell to [t, v], t = "s" with v   *)
(* the text or t = "n" with v the number.                                   *)

EmptyMap == [x \in {} |-> x]

Max(S) == CHOOSE x \in S : \A y \in S : y <= x

Min(S) == CHOOSE x \in S : \A y \in S : x <= y

\* XLSX.utils.decode_range('A1')
A1Range == [s |-> [r |-> 0, c |-> 0], e |-> [r |-> 0, c |-> 0]]

\* XLSX.utils.decode_range(sheet['!ref'] || 'A1')
decode_range(sheet) == IF sheet.ref = <<>> THEN A1Range ELSE sheet.ref[1]

HasCell(sheet, r, c) == <<r, c>> \in DOMAIN sheet.cells

\* cell?.v?.toString().trim() ?? ''
HeaderText(sheet, col) ==
    IF HasCell(sheet, 0, col) THEN Trim(sheet.cells[<<0, col>>].v) ELSE ""

templateHeaders(sheet, range) ==
    [k \in 1..(range.e.c - range.s.c + 1) |-> HeaderText(sheet, range.s.c + k - 1)]

\* cell?.v !== undefined && cell?.v !== null && cell?.v !== ''  for some column
hasData(sheet, range, row) ==
    \E col \in range.s.c..range.e.c :
        HasCell(sheet, row, col) /\ sheet.cells[<<row, col>>].v /= ""

\* startRow with the scan beginning at the header row: `let startRow = 0`.
startRowFromHeader(sheet, range) ==
    LET rows == {row \in 1..range.e.r : hasData(sheet, range, row)}
    IN  IF rows = {} THEN 0 ELSE Max(rows) + 1

startRow(sheet, range) ==
    LET rows == {row \in 1..range.e.r : hasData(sheet, range, row)}
    IN  IF rows = {} THEN 1 ELSE Max(rows) + 1

\* csvValue with an empty own field passed over in favour of the mapping.
csvValueSkippingEmpty(csvRow, templateHeader, mapping) ==
    IF HasKey(csvRow, templateHeader) /\ Get(csvRow, templateHeader) /= ""
    THEN Get(csvRow, templateHeader)
    ELSE LET hits == {i \in 1..Len(mapping) :
                        mapping[i][2] = templateHeader /\ HasKey(csvRow, mapping[i][1])}
         IN  IF hits = {} THEN "" ELSE Get(csvRow, mapping[Min(hits)][1])

\* lines 352-363: the record's own field, else the first mapping entry for the
\* template header whose source field the record has, else ''
csvValue(csvRow, templateHeader, mapping) ==
    IF HasKey(csvRow, templateHeader) THEN Get(csvRow, templateHeader)
    ELSE LET hits == {i \in 1..Len(mapping) :
                        mapping[i][2] = templateHeader /\ HasKey(csvRow, mapping[i][1])}
         IN  IF hits = {} THEN "" ELSE Get(csvRow, mapping[Min(hits)][1])

\* lines 371-374
finalValue(templateHeader, value) ==
    IF Includes(ToLowerCase(templateHeader), "place of supply")
    THEN cleanPlaceOfSupply(value)
    ELSE value

\* lines 366-381: the cell written for a resolved value
cellFor(templateHeader, value) ==
    IF value = "" THEN [t |-> "s", v |-> ""]
    ELSE LET fv       == finalValue(templateHeader, value)
             numValue == ParseFloat(RemoveCommas(fv))
         IN  IF numValue /= NaN /\ MatchesNumeric(fv)
             THEN [t |-> "n", v |-> numValue]
             ELSE [t |-> "s", v |-> Trim(fv)]

\* line 365: the column of encode_cell({ r: excelRow, c: colIndex })
cellCol(range, colIndex) == colIndex

\* lines 347-383: the cells written, one per record and non-blank template
\* header. rec and idx are the zero-based rowIndex and colIndex; hcol is the
\* sheet column the header was read from.
sheetWrites(data, headers, mapping, range, start) ==
    { [rec  |-> k - 1,
       idx  |-> j - 1,
       hcol |-> range.s.c + j - 1,
       hdr  |-> headers[j],
       raw  |-> csvValue(data[k], headers[j], mapping),
       r    |-> start + k - 1,
       c    |-> cellCol(range, j - 1),
       cell |-> cellFor(headers[j], csvValue(data[k], headers[j], mapping))] :
      k \in 1..Len(data), j \in {i \in 1..Len(headers) : headers[i] /= ""} }

\* The cells of a sheet after the writes ws (no two of them to one address).
Written(cells, ws) ==
    [a \in DOMAIN cells \cup {<<w.r, w.c>> : w \in ws} |->
        IF \E w \in ws : <<w.r, w.c>> = a
        THEN (CHOOSE w \in ws : <<w.r, w.c>> = a).cell
        ELSE cells[a]]

\* appendDataToSheet: the sheet after the call, with the start row and the writes
appendDataToSheet(sheet, data, mapping) ==
    IF Len(data) = 0 THEN [sheet |-> sheet, start |-> 0, writes |-> {}]
    ELSE LET range   == decode_range(sheet)
             headers == templateHeaders(sheet, range)
             start   == startRow(sheet, range)
             ws      == sheetWrites(data, headers, mapping, range, start)
         IN  [sheet  |-> [ref   |-> <<[range EXCEPT !.e.r = start + Len(data) - 1]>>,
                          cells |-> Written(sheet.cells, ws)],
              start  |-> start,
              writes |-> ws]

\* The header of XLSX.utils.json_to_sheet: the keys of the records in the
\* order in which they are first met.
RECURSIVE hdrOf(_, _, _)
hdrOf(data, k, hdr) ==
    IF k > Len(data) THEN hdr
    ELSE LET new == SelectSeq(Keys(data[k]), LAMBDA key : \A i \in 1..Len(hdr) : hdr[i] /= key)
         IN  hdrOf(data, k + 1, hdr \o new)

\* XLSX.utils.json_to_sheet(data) for records of strings: row 0 holds the keys,
\* row k the values of record k as text cells, '!ref' is A1 to the last cell.
jsonWrites(data, hdr) ==
    UNION { { [rec  |-> k - 1,
               idx  |-> j - 1,
               hcol |-> j - 1,
               hdr  |-> hdr[j],
               raw  |-> Get(data[k], hdr[j]),
               r    |-> k,
               c    |-> j - 1,
               cell |-> [t |-> "s", v |-> Get(data[k], hdr[j])]] :
              j \in {i \in 1..Len(hdr) : HasKey(data[k], hdr[i])} } :
            k \in 1..Len(data) }

json_to_sheet(data) ==
    LET hdr == hdrOf(data, 1, <<>>)
        ws  == jsonWrites(data, hdr)
        top == [a \in {<<0, j - 1>> : j \in 1..Len(hdr)} |-> [t |-> "s", v |-> hdr[a[2] + 1]]]
    IN  [sheet  |-> [ref   |-> <<[s |-> [r |-> 0, c |-> 0],
                                  e |-> [r |-> Len(data),
                                         c |-> IF Len(hdr) = 0 THEN 0 ELSE Len(hdr) - 1]]>>,
                     cells |-> Written(top, ws)],
         start  |-> 1,
         writes |-> ws]

\* XLSX.utils.book_new()
book_new == [SheetNames |-> <<>>, Sheets |-> EmptyMap]

\* workbook.Sheets = { [name]: sheet }
SetSheetAlone(wb, name, sheet) ==
    [wb EXCEPT !.Sheets = [n \in {name} |-> sheet]]

\* workbook.Sheets[name] = sheet
SetSheet(wb, name, sheet) ==
    [wb EXCEPT !.Sheets = [n \in DOMAIN wb.Sheets \cup {name} |->
                              IF n = name THEN sheet ELSE wb.Sheets[n]]]

\* XLSX.utils.book_append_sheet(workbook, sheet, name)
book_append_sheet(wb, sheet, name) ==
    [SetSheet(wb, name, sheet) EXCEPT !.SheetNames = Append(wb.SheetNames, name)]

-----------------------------------------------------------------------------
(* Inputs: the workbooks XLSX.read may decode from the template, and the    *)
(* files of a call.                                                         *)

\* The text cells of row r holding texts from column c0 on.
TextRow(r, c0, texts) ==
    [a \in {<<r, c0 + i - 1>> : i \in 1..Len(texts)} |->
        [t |-> "s", v |-> texts[a[2] - c0 + 1]]]

RangeOf(sr, sc, er, ec) == [s |-> [r |-> sr, c |-> sc], e |-> [r |-> er, c |-> ec]]

\* A template whose sheets start at A1: b2b with a header row only (one header
\* padded with blanks, one column without header), cdnr with one data row, and
\* an hsn sheet without any cell.
TemplateA ==
    [SheetNames |-> <<"b2b", "cdnr", "hsn">>,
     Sheets |->
        [b2b  |-> [ref   |-> <<RangeOf(0, 0, 0, 4)>>,
                   cells |-> TextRow(0, 0, <<"GSTIN/UIN", " Invoice No ", "",
                                             "Taxable Value", "Place Of Supply">>)],
         cdnr |-> [ref   |-> <<RangeOf(0, 0, 1, 1)>>,
                   cells |-> TextRow(0, 0, <<"Place of supply", "Dr./Cr. Value">>)
                             @@ TextRow(1, 0, <<"Goa">>)
                             @@ (<<1, 1>> :> [t |-> "n", v |-> "10"])],
         hsn  |-> [ref |-> <<>>, cells |-> EmptyMap]]]

\* A template whose b2b sheet has the used range B1:C4: headers in columns B
\* and C, a blank row, one data row, and a row of empty text cells below it.
\* Its hsn sheet has the used range B1:C1 with a header in column C only.
TemplateB ==
    [SheetNames |-> <<"b2b", "hsn">>,
     Sheets |->
        [b2b |-> [ref   |-> <<RangeOf(0, 1, 3, 2)>>,
                  cells |-> TextRow(0, 1, <<"Invoice No", "Taxable Value">>)
                            @@ (<<2, 1>> :> [t |-> "s", v |-> "OLD1"])
                            @@ (<<2, 2>> :> [t |-> "n", v |-> "5"])
                            @@ TextRow(3, 1, <<"", "">>)],
         hsn |-> [ref   |-> <<RangeOf(0, 1, 0, 2)>>,
                  cells |-> TextRow(0, 2, <<"HSN">>)]]]

Templates == {TemplateA, TemplateB}

\* A templateBuffer is <<wb>> when XLSX.read decodes it to the workbook wb,
\* and <<>> when XLSX.read throws on it.
Corrupt == <<>>

TemplateBuffers == {<<t>> : t \in Templates} \cup {Corrupt}

\* readTemplate for a workbook kept at module level: a workbook left by an
\* earlier call is used again.
readTemplateKeepingWorkbook(templateBuffer) ==
    IF Len(workbook.SheetNames) > 0 THEN workbook
    ELSE IF templateBuffer = Corrupt THEN book_new ELSE templateBuffer[1]

\* lines 398-405: the decoded template, or a new workbook when decoding throws
readTemplate(templateBuffer) ==
    IF templateBuffer = Corrupt THEN book_new ELSE templateBuffer[1]

\* XLSX.write(workbook, ...) throws "Workbook is empty" for a workbook without
\* sheets.
writeThrows(wb) == Len(wb.SheetNames) = 0

File(name, content) == [name |-> name, content |-> content]

Files ==
    { File("readme.csv", "Taxable Value\n1000"),
      File("sales_b2b.csv",
           "GSTIN/UIN of Recipient,Invoice Number,Taxable Value\n27ABCDE1234F1Z5,INV001,1000"),
      File("sales_b2b_2.csv",
           "GSTIN/UIN of Recipient,Invoice Number,Taxable Value\n27XYZAB5678G1Z2,INV002,2500"),
      File("B2B_amounts.csv",
           "Taxable Value,Place Of Supply\n\"1,234.50\",07-Delhi\n-7.0, Delhi \n"),
      File("b2b_gaps.csv", "Invoice Number,Foo,Invoice No\r\nINV9,x,\r\n,\r\n"),
      File("cdnr_notes.csv",
           "Place Of Supply,Note Value\n07-Delhi,10\n07 - Delhi,22AAAAA0000A1Z5\nDelhi,\n"),
      File("b2b_empty.csv", ""),
      File("b2b_header.csv", "Invoice Number,Taxable Value\n"),
      File("b2b_partial.csv", "Invoice Number\nINV7"),
      File("cdnr_blank.csv", "Place Of Supply\r\n\r\n  \n"),
      File("hsn_summary.csv", "HSN,Rate,2024\n1001,5,x") }

-----------------------------------------------------------------------------
(* generateGSTR1Excel *)

\* parseCSV(content).map(row => trimAll(row))
recordsOf(content) ==
    LET rows == parseCSV(content)
    IN  [k \in 1..Len(rows) |-> trimAll(rows[k])]

\* One iteration of the loop over csvFiles (lines 407-422): the workbook after
\* it and the log entry of what it did.
Iteration(wb, name, content) ==
    LET sheetName == getSheetName(name)
        data      == IF sheetName = Null THEN <<>> ELSE recordsOf(content)
        entry     == [name |-> name, content |-> content, sheetName |-> sheetName,
                      data |-> data, before |-> wb,
                      path |-> "unclassified", start |-> 0, writes |-> {}]
    IN  IF sheetName = Null
        THEN [workbook |-> wb, entry |-> entry]
        ELSE IF Len(data) = 0
        THEN [workbook |-> wb, entry |-> [entry EXCEPT !.path = "norecords"]]
        ELSE IF sheetName \notin DOMAIN wb.Sheets
        THEN LET res == json_to_sheet(data)
             IN  [workbook |-> book_append_sheet(SetSheet(wb, sheetName, res.sheet),
                                                 res.sheet, sheetName),
                  entry    |-> [entry EXCEPT !.path = "create",
                                             !.start = res.start, !.writes = res.writes]]
        ELSE LET res == appendDataToSheet(wb.Sheets[sheetName], data,
                                          columnMappings[sheetName])
             IN  [workbook |-> SetSheet(wb, sheetName, res.sheet),
                  entry    |-> [entry EXCEPT !.path = "append",
                                             !.start = res.start, !.writes = res.writes]]

\* The lists of at most MaxFiles files.
FileLists == UNION {[1..n -> Files] : n \in 0..MaxFiles}

\* handleUpload has not been called: pc is its position, files the selected
\* files, idx the place of the file of the current loop iteration, presigned
\* what the presign call resolved to, uploaded and failed the arrays of these
\* names, uploadSuccess and uploadError the messages set; events is the history
\* of the requests sent.
NoUpload ==
    [pc |-> "idle", files |-> <<>>, idx |-> 0, presigned |-> "none",
     uploaded |-> <<>>, failed |-> <<>>, events |-> <<>>,
     uploadSuccess |-> "", uploadError |-> ""]

\* A call of request that has not been made: pc is where the call is ("idle",
\* "fetch" at the await of line 46, "refresh" at the await of line 52, "queued"
\* with its callback in refreshSubscribers, "retry" with the fetch of line 62
\* under way, "resolved" or "rejected"); isRetry the argument; value what the
\* promise resolved with. History: fetches sent to the endpoint, refreshes
\* started, the last answer received.
NoRequest ==
    [pc |-> "idle", isRetry |-> FALSE, value |-> "none",
     fetches |-> 0, refreshes |-> 0, last |-> "none"]

\* No call of request has been made, no refresh is under way.
NoRequests ==
    /\ isRefreshing = FALSE
    /\ refreshSubscribers = <<>>
    /\ requests = [id \in 1..MaxRequests |-> NoRequest]
    /\ refresh_token = FALSE

\* No call of a pure function, no upload and no request is under way.
Idle ==
    /\ call = <<>>
    /\ ret = <<>>
    /\ upload = NoUpload
    /\ NoRequests

Init ==
    /\ pc = "load"
    /\ template \in TemplateBuffers
    /\ csvFiles \in FileLists
    /\ workbook = book_new
    /\ log = <<>>
    /\ output = <<>>
    /\ first = <<>>
    /\ Idle

\* lines 398-405: the template decodes to a workbook, or decoding throws and
\* the workbook is a new one
LoadTemplate ==
    /\ pc = "load"
    /\ workbook' = readTemplate(template)
    /\ pc' = "files"
    /\ UNCHANGED <<template, csvFiles, log, output, first, others>>

\* lines 407-422, the next file of csvFiles
ProcessFile ==
    /\ pc = "files"
    /\ Len(log) < Len(csvFiles)
    /\ LET f  == csvFiles[Len(log) + 1]
           it == Iteration(workbook, f.name, f.content)
       IN  /\ workbook' = it.workbook
           /\ log' = Append(log, it.entry)
    /\ UNCHANGED <<pc, template, csvFiles, output, first, others>>

\* lines 424-427: the workbook is written out and returned, or XLSX.write
\* throws and so does the call
WriteWorkbook ==
    /\ pc = "files"
    /\ Len(log) = Len(csvFiles)
    /\ IF writeThrows(workbook)
       THEN pc' = "failed" /\ output' = output
       ELSE pc' = "done" /\ output' = <<workbook>>
    /\ UNCHANGED <<template, csvFiles, workbook, log, first, others>>

Next == LoadTemplate \/ ProcessFile \/ WriteWorkbook

Spec == Init /\ [][Next]_vars

\* generateGSTR1Excel is called once more with the same templateBuffer and
\* csvFiles. `let workbook` of line 398 is a local of the call: it holds no
\* value until LoadTemplate assigns it.
Reinvoke ==
    /\ pc \in {"done", "failed"}
    /\ first = <<>>
    /\ first' = <<[pc |-> pc, output |-> output]>>
    /\ pc' = "load"
    /\ log' = <<>>
    /\ output' = <<>>
    /\ UNCHANGED <<template, csvFiles, workbook, others>>

NextTwice == Next \/ Reinvoke

SpecTwice == Init /\ [][NextTwice]_vars

-----------------------------------------------------------------------------
(* Properties. Helpers to speak about the history kept in log. *)

Entries == 1..Len(log)

\* The workbook right after iteration i.
After(i) == IF i = Len(log) THEN workbook ELSE log[i + 1].before

Merged(i) == log[i].path \in {"create", "append"}

\* Iterations i < j that merged files of the same category.
SameSheet(i, j) ==
    /\ i < j
    /\ Merged(i) /\ Merged(j)
    /\ log[i].sheetName = log[j].sheetName

\* j is the next merge after i into the sheet of i.
NextMerge(i, j) ==
    /\ SameSheet(i, j)
    /\ \A m \in Entries : ~(SameSheet(i, m) /\ m < j)

\* The row of the zero-based record k of iteration i.
RowOfRecord(i, k) == log[i].start + k

\* The addresses whose cell differs between two sheets.
Changed(before, after) ==
    {a \in DOMAIN before.cells \cup DOMAIN after.cells :
        \/ a \notin DOMAIN before.cells
        \/ a \notin DOMAIN after.cells
        \/ before.cells[a] /= after.cells[a]}

PlaceOfSupplyHeader(h) == Includes(ToLowerCase(h), "place of supply")

\* C1: in the template-merge path a resolved value that is a number written
\* with thousands-separator commas ("1,234.50") is written as the numeric cell
\* of the number without the commas (1234.5).
C1_CommaNumberIsNumericCell ==
    \A i \in Entries : log[i].path = "append" =>
        \A w \in log[i].writes :
            (~PlaceOfSupplyHeader(w.hdr) /\ MatchesNumeric(RemoveCommas(w.raw))) =>
                w.cell = [t |-> "n", v |-> ParseFloat(RemoveCommas(w.raw))]

\* C2: for two files of one category merged one after the other, the first
\* maybe creating the sheet, every value that matches the numeric pattern is
\* written as a numeric cell in the rows of both files.
C2_NumericInBothMergePaths ==
    \A i, j \in Entries : SameSheet(i, j) =>
        \A w \in log[i].writes \cup log[j].writes :
            MatchesNumeric(Trim(w.raw)) => w.cell.t = "n"

\* C3: merges into one sheet accumulate: the rows of a file start right after
\* the last row written by the previous file of that category, so no row of an
\* earlier file is overwritten.
C3_MergesAccumulate ==
    \A i, j \in Entries : NextMerge(i, j) =>
        log[j].start = log[i].start + Len(log[i].data)

\* C4: the rows of a sheet are in input order: every row of an earlier file of
\* the category is above every row of a later one, and the rows of one file
\* are in the order of its records.
C4_RowsInInputOrder ==
    /\ \A i, j \in Entries : SameSheet(i, j) =>
          \A k1 \in 0..(Len(log[i].data) - 1), k2 \in 0..(Len(log[j].data) - 1) :
              RowOfRecord(i, k1) < RowOfRecord(j, k2)
    /\ \A i \in Entries : Merged(i) =>
          \A w1, w2 \in log[i].writes : w1.rec < w2.rec => w1.r < w2.r

\* C5: a value appended to an existing sheet is written in the sheet column
\* whose row-0 header it was resolved for, whatever the used range of the sheet.
C5_WrittenUnderItsHeader ==
    \A i \in Entries : log[i].path = "append" =>
        \A w \in log[i].writes :
            /\ w.c = w.hcol
            /\ After(i).Sheets[log[i].sheetName].cells[<<w.r, w.hcol>>] = w.cell

\* C6: once a sheet exists no iteration changes a cell of its row 0, and a
\* merge changes cells only in rows at or below its start row, which is >= 1.
C6_HeaderRowKept ==
    \A i \in Entries :
        /\ \A n \in DOMAIN log[i].before.Sheets :
              /\ n \in DOMAIN After(i).Sheets
              /\ \A a \in Changed(log[i].before.Sheets[n], After(i).Sheets[n]) : a[1] /= 0
        /\ log[i].path = "append" =>
              /\ log[i].start >= 1
              /\ \A a \in Changed(log[i].before.Sheets[log[i].sheetName],
                                  After(i).Sheets[log[i].sheetName]) :
                    a[1] >= log[i].start

\* C6 happens: a file created a sheet and a later file was appended below its
\* header row, changing cells.
C6_Witness ==
    \E i, j \in Entries :
        /\ SameSheet(i, j)
        /\ log[i].path = "create" /\ log[j].path = "append"
        /\ Changed(log[j].before.Sheets[log[j].sheetName],
                   After(j).Sheets[log[j].sheetName]) /= {}

\* C7: when the registry of the category relates a source field to the header
\* of a sheet column, a record that has the source field and no field named
\* like the header gets the field's value written in that column.
C7_AliasFillsCanonicalColumn ==
    \A i \in Entries : log[i].path = "append" =>
        LET name    == log[i].sheetName
            sheet   == log[i].before.Sheets[name]
            range   == decode_range(sheet)
            mapping == columnMappings[name]
        IN  \A k \in 1..Len(log[i].data), m \in 1..Len(mapping), col \in range.s.c..range.e.c :
                ( /\ HeaderText(sheet, col) = mapping[m][2]
                  /\ HasKey(log[i].data[k], mapping[m][1])
                  /\ ~HasKey(log[i].data[k], mapping[m][2]) ) =>
                    LET a == <<RowOfRecord(i, k - 1), col>>
                    IN  /\ a \in DOMAIN After(i).Sheets[name].cells
                        /\ After(i).Sheets[name].cells[a]
                             = cellFor(mapping[m][2], Get(log[i].data[k], mapping[m][1]))

\* The value of a place-of-supply column as C8 states it: a leading prefix of
\* digits, optional whitespace, a dash and optional whitespace is removed and
\* the rest trimmed; a value without the prefix stays as it is.
PrefixStripped(value) ==
    LET d  == RunLen(value, 1, Digits)
        w1 == RunLen(value, d + 1, WhiteSpace)
        p  == d + w1 + 1
    IN  IF d >= 1 /\ p <= Len(value) /\ At(value, p) = "-"
        THEN Trim(SubSeq(value, p + 1, Len(value)))
        ELSE value

\* C8: in a place-of-supply column "07-Delhi" and "07 - Delhi" are both
\* written as "Delhi", and a value without such a prefix is written unchanged.
C8_PlaceOfSupplyCleaned ==
    \A i \in Entries : log[i].path = "append" =>
        \A w \in log[i].writes :
            (PlaceOfSupplyHeader(w.hdr) /\ w.raw /= "" /\ w.cell.t = "s") =>
                w.cell.v = PrefixStripped(w.raw)

Keywords == {"HSN", "B2CL", "B2CS", "B2B", "EXP", "EXEMP", "CDNUR", "CDNR"}

NoKeyword(name) == \A kw \in Keywords : ~Includes(ToUpperCase(name), kw)

\* C9: a file whose name holds no category keyword leaves the document as it
\* was: no sheet is created and no cell or used range changes.
C9_UnclassifiedFileSkipped ==
    \A i \in Entries : NoKeyword(log[i].name) => After(i) = log[i].before

\* C9 happens: a file without keyword, with records in it, met a document that
\* has sheets.
C9_Witness ==
    \E i \in Entries :
        /\ NoKeyword(log[i].name)
        /\ Len(parseCSV(log[i].content)) > 0
        /\ DOMAIN log[i].before.Sheets /= {}

\* The content is empty, a header line only, or a header line followed by
\* blank lines only.
NothingBelowHeader(content) ==
    LET lines == SplitLines(content)
    IN  \A k \in 2..Len(lines) : Trim(lines[k]) = ""

\* C10: a classified file with nothing below its header line is skipped: the
\* document is unchanged, no sheet is created and an existing sheet keeps its
\* cells and used range.
C10_EmptyFileSkipped ==
    \A i \in Entries :
        (~NoKeyword(log[i].name) /\ NothingBelowHeader(log[i].content)) =>
            After(i) = log[i].before

\* C10 happens: a classified file with empty content met a document that has
\* a sheet of its category, and a classified file with blank lines below its
\* header one that has none.
C10_Witness ==
    \E i, j \in Entries :
        /\ ~NoKeyword(log[i].name) /\ ~NoKeyword(log[j].name)
        /\ log[i].content = ""
        /\ NothingBelowHeader(log[j].content)
        /\ Len(SplitLines(log[j].content)) > 2
        /\ getSheetName(log[i].name) \in DOMAIN log[i].before.Sheets
        /\ getSheetName(log[j].name) \notin DOMAIN log[j].before.Sheets

-----------------------------------------------------------------------------
(* Calls of the pure functions on their own: the argument is drawn at the   *)
(* start, the call returns in one step.                                     *)

\* generateGSTR1Excel is not running.
Parked ==
    /\ pc = "idle"
    /\ template = Corrupt
    /\ csvFiles = <<>>
    /\ workbook = book_new
    /\ log = <<>>
    /\ output = <<>>
    /\ first = <<>>

generateVars == <<pc, template, csvFiles, workbook, log, output, first>>

RECURSIVE Concat(_)
Concat(seq) == IF Len(seq) = 0 THEN "" ELSE Head(seq) \o Concat(Tail(seq))

\* Pieces of file names: keywords in several letter cases, parts of keywords
\* and text without keyword.
NamePieces ==
    {"hsn", "B2CL", "b2cs", "B2b", "Exp", "exemp", "CDNUR", "cdnr",
     "b2", "cl", "sales_", ".csv"}

FileNames == {Concat(ps) : ps \in UNION {[1..n -> NamePieces] : n \in 0..MaxPieces}}

\* The lines of at most MaxLine characters over a letter, the comma, the
\* double quote and the blank.
LineChars == {"a", ",", "\"", " "}

Lines == {Concat(cs) : cs \in UNION {[1..n -> LineChars] : n \in 0..MaxLine}}

\* Header lines: plain, with a name twice, padded, with an empty name.
HeaderLines == {"A,B", "A,B,A", "A", " A , B ", "A,,B"}

\* Lines below the header: as many fields as headers, fewer, more, blank
\* lines, a quoted comma, empty fields.
RowLines == {"1,2", "1", "1,2,3", "1,2,3,4", "", "  ", "\"x,y\",2", ",", "1,,3"}

LineBreaks == {"\n", "\r\n"}

\* The text of the header line h and the lines rows, each ended by br.
RECURSIVE TextOf(_, _, _)
TextOf(h, rows, br) ==
    IF Len(rows) = 0 THEN h
    ELSE TextOf(h, SubSeq(rows, 1, Len(rows) - 1), br) \o br \o rows[Len(rows)]

Texts ==
    {TextOf(h, rows, br) :
        h \in HeaderLines,
        rows \in UNION {[1..n -> RowLines] : n \in 0..MaxRows},
        br \in LineBreaks}

Calls ==
    {<<"getSheetName", n>> : n \in FileNames}
        \cup {<<"parseLine", l>> : l \in Lines}
        \cup {<<"parseCSV", t>> : t \in Texts}

InitCalls ==
    /\ Parked
    /\ call \in Calls
    /\ ret = <<>>
    /\ upload = NoUpload
    /\ NoRequests

CallGetSheetName ==
    /\ call[1] = "getSheetName"
    /\ ret = <<>>
    /\ ret' = <<getSheetName(call[2])>>
    /\ UNCHANGED <<generateVars, refreshVars, call, upload>>

CallParseLine ==
    /\ call[1] = "parseLine"
    /\ ret = <<>>
    /\ ret' = <<parseLine(call[2])>>
    /\ UNCHANGED <<generateVars, refreshVars, call, upload>>

CallParseCSV ==
    /\ call[1] = "parseCSV"
    /\ ret = <<>>
    /\ ret' = <<parseCSV(call[2])>>
    /\ UNCHANGED <<generateVars, refreshVars, call, upload>>

NextCalls == CallGetSheetName \/ CallParseLine \/ CallParseCSV

SpecCalls == InitCalls /\ [][NextCalls]_vars

Returned(fn) == Len(call) = 2 /\ call[1] = fn /\ Len(ret) = 1

-----------------------------------------------------------------------------
(* The upload of the customer dashboard: request of src/services/api.ts and *)
(* handleUpload of src/pages/customer/Dashboard.tsx.                        *)

\* How the server answers a fetch: a 2xx status with a JSON body, 401, another
\* status that is not ok, or no answer (fetch rejects).
Responses == {"ok", "unauthorized", "error", "network"}

\* What one call of request meets: the answer to its fetch; whether another
\* request is refreshing the token at that moment (isRefreshing); how the
\* refresh ends; the answer to the retry.
Exchanges ==
    [first : Responses, busy : BOOLEAN, refresh : {"refreshed", "failed"}, retry : Responses]

Settled(how, value, succeeded) == [settled |-> how, value |-> value, succeeded |-> succeeded]

\* api.ts lines 38-82, request(endpoint, options) for one exchange x: how the
\* promise settles ("resolved" with a value, "rejected", or "pending" for
\* ever), and whether the server answered the request, or its retry, with ok.
request(x) ==
    IF x.first = "network" THEN Settled("rejected", "none", FALSE)
    ELSE IF x.first = "unauthorized"
    THEN IF ~x.busy
         THEN IF x.refresh = "refreshed"
              THEN IF x.retry = "ok" THEN Settled("resolved", "data", TRUE)
                   ELSE Settled("rejected", "none", FALSE)
              ELSE Settled("resolved", "undefined", FALSE)
         ELSE IF x.refresh = "failed" THEN Settled("pending", "none", FALSE)
              ELSE IF x.retry = "network" THEN Settled("rejected", "none", FALSE)
              ELSE IF x.retry = "ok" THEN Settled("resolved", "data", TRUE)
              ELSE Settled("resolved", "errorBody", FALSE)
    ELSE IF x.first = "error" THEN Settled("rejected", "none", FALSE)
    ELSE Settled("resolved", "data", TRUE)

\* The files that can be selected: name, whether the name ends in .csv or the
\* type is text/csv, and the size in MB.
Selectable ==
    { [name |-> "a.csv", csv |-> TRUE, size |-> 1],
      [name |-> "b.csv", csv |-> TRUE, size |-> 10],
      [name |-> "c.pdf", csv |-> FALSE, size |-> 1],
      [name |-> "d.csv", csv |-> TRUE, size |-> 11] }

\* The selections of at most MaxUploads files with different names.
Selections ==
    {fs \in UNION {[1..n -> Selectable] : n \in 0..MaxUploads} :
        \A i, j \in 1..Len(fs) : fs[i].name = fs[j].name => i = j}

\* Dashboard.tsx line 73: 10 * 1024 * 1024 bytes, in MB
MaxSizeMB == 10

InitUpload ==
    /\ Parked
    /\ call = <<>>
    /\ ret = <<>>
    /\ upload \in {[NoUpload EXCEPT !.pc = "validate", !.files = fs] : fs \in Selections}
    /\ NoRequests

\* The history with one more request of the current file.
Event(step, succeeded, settled) ==
    Append(upload.events,
           [idx |-> upload.idx, step |-> step, succeeded |-> succeeded, settled |-> settled])

\* The catch block of the loop and the step to the next file (lines 99-103).
Caught(events) ==
    [upload EXCEPT !.events = events,
                   !.failed = Append(@, upload.files[upload.idx].name),
                   !.presigned = "none",
                   !.idx = @ + 1,
                   !.pc = IF upload.idx < Len(upload.files) THEN "presign" ELSE "finish"]

\* Dashboard.tsx lines 60-83: the early returns and the start of the loop
UploadValidate ==
    /\ upload.pc = "validate"
    /\ upload' =
          IF Len(upload.files) = 0 THEN [upload EXCEPT !.pc = "done"]
          ELSE IF \E i \in 1..Len(upload.files) : ~upload.files[i].csv
          THEN [upload EXCEPT !.pc = "done", !.uploadError = "Only CSV files accepted"]
          ELSE IF \E i \in 1..Len(upload.files) : upload.files[i].size > MaxSizeMB
          THEN [upload EXCEPT !.pc = "done", !.uploadError = "Files must be under 10MB"]
          ELSE [upload EXCEPT !.pc = "presign", !.idx = 1]
    /\ UNCHANGED <<generateVars, refreshVars, call, ret>>

\* line 86: const { presigned_url, storage_key } = await api.getPresignedUploadUrl(...)
\* Destructuring undefined throws; an error body has neither field.
UploadPresign ==
    /\ upload.pc = "presign"
    /\ \E x \in Exchanges :
          LET res == request(x)
              evs == Event("presign", res.succeeded, res.settled)
          IN  upload' =
                IF res.settled = "pending" THEN [upload EXCEPT !.events = evs, !.pc = "hung"]
                ELSE IF res.settled = "rejected" \/ res.value = "undefined" THEN Caught(evs)
                ELSE [upload EXCEPT !.events = evs, !.presigned = res.value, !.pc = "put"]
    /\ UNCHANGED <<generateVars, refreshVars, call, ret>>

\* lines 89-94: the PUT to presigned_url. fetch sends its own request, not
\* through request; with presigned_url undefined it goes to the address
\* "undefined" of the page's origin.
UploadPut ==
    /\ upload.pc = "put"
    /\ \E r \in Responses :
          LET evs == Event("put", r = "ok", IF r = "network" THEN "rejected" ELSE "resolved")
          IN  upload' = IF r = "ok" THEN [upload EXCEPT !.events = evs, !.pc = "confirm"]
                        ELSE Caught(evs)
    /\ UNCHANGED <<generateVars, refreshVars, call, ret>>

\* lines 97-98: await api.confirmUpload(...); uploaded.push(file.name)
UploadConfirm ==
    /\ upload.pc = "confirm"
    /\ \E x \in Exchanges :
          LET res == request(x)
              evs == Event("confirm", res.succeeded, res.settled)
          IN  upload' =
                IF res.settled = "pending" THEN [upload EXCEPT !.events = evs, !.pc = "hung"]
                ELSE IF res.settled = "rejected" THEN Caught(evs)
                ELSE [upload EXCEPT
                        !.events = evs,
                        !.uploaded = Append(@, upload.files[upload.idx].name),
                        !.presigned = "none",
                        !.idx = @ + 1,
                        !.pc = IF upload.idx < Len(upload.files) THEN "presign" ELSE "finish"]
    /\ UNCHANGED <<generateVars, refreshVars, call, ret>>

\* lines 105-116: the messages after the loop
UploadFinish ==
    /\ upload.pc = "finish"
    /\ upload' = [upload EXCEPT
                    !.pc = "done",
                    !.uploadSuccess = IF Len(upload.uploaded) > 0 THEN "Uploaded" ELSE "",
                    !.uploadError = IF Len(upload.failed) > 0 THEN "Failed to upload" ELSE ""]
    /\ UNCHANGED <<generateVars, refreshVars, call, ret>>

NextUpload ==
    UploadValidate \/ UploadPresign \/ UploadPut \/ UploadConfirm \/ UploadFinish

SpecUpload == InitUpload /\ [][NextUpload]_vars

InSeq(x, seq) == \E i \in 1..Len(seq) : seq[i] = x

\* The places in the history of the requests of file idx at the given step.
EventsOf(idx, step) ==
    {e \in 1..Len(upload.events) : upload.events[e].idx = idx /\ upload.events[e].step = step}

\* The loop has left file idx behind.
Past(idx) == upload.idx > idx \/ upload.pc \in {"finish", "done"}

\* C19: a confirm request is sent for a file only after its presign request
\* succeeded and its PUT was answered with a success status; a file one of
\* whose requests failed is recorded as failed and not as uploaded, no confirm
\* is sent for it after the failure, and the loop goes on to the next file
\* instead of stopping.
C19_ConfirmAfterUploadFailuresRecorded ==
    /\ \A e \in 1..Len(upload.events) : upload.events[e].step = "confirm" =>
          /\ \E p \in EventsOf(upload.events[e].idx, "presign") :
                p < e /\ upload.events[p].succeeded
          /\ \E p \in EventsOf(upload.events[e].idx, "put") :
                p < e /\ upload.events[p].succeeded
    /\ \A e \in 1..Len(upload.events) : ~upload.events[e].succeeded =>
          /\ upload.pc /= "hung"
          /\ Past(upload.events[e].idx)
          /\ InSeq(upload.files[upload.events[e].idx].name, upload.failed)
          /\ ~InSeq(upload.files[upload.events[e].idx].name, upload.uploaded)
          /\ \A c \in EventsOf(upload.events[e].idx, "confirm") : c <= e

\* The keywords in the order of C14, each with its category.
KeywordOrder ==
    << <<"HSN", "hsn">>, <<"B2CL", "b2cl">>, <<"B2CS", "b2cs">>, <<"B2B", "b2b">>,
       <<"EXP", "export">>, <<"EXEMP", "Nil_exempt_NonGST">>,
       <<"CDNUR", "cdnur">>, <<"CDNR", "cdnr">> >>

\* The places in KeywordOrder of the keywords that occur in the upper-cased name.
KeywordHits(name) ==
    {k \in 1..Len(KeywordOrder) : Includes(ToUpperCase(name), KeywordOrder[k][1])}

\* C14: getSheetName returns the category of the earliest keyword, in the
\* order HSN, B2CL, B2CS, B2B, EXP, EXEMP, CDNUR, CDNR, that occurs in the
\* upper-cased name, and null exactly when none occurs; the name written in
\* lower case or in upper case gets the same result.
C14_FirstKeywordWins ==
    Returned("getSheetName") =>
        LET name == call[2]
            hits == KeywordHits(name)
        IN  /\ ret[1] = IF hits = {} THEN Null ELSE KeywordOrder[Min(hits)][2]
            /\ (ret[1] = Null) <=> (hits = {})
            /\ getSheetName(ToLowerCase(name)) = ret[1]
            /\ getSheetName(ToUpperCase(name)) = ret[1]

\* C14 happens: a name in mixed case that holds B2B before a keyword that
\* comes earlier in the order has been classified.
C14_Witness ==
    /\ Returned("getSheetName")
    /\ call[2] \notin {ToUpperCase(call[2]), ToLowerCase(call[2])}
    /\ 4 \in KeywordHits(call[2])
    /\ Min(KeywordHits(call[2])) < 4
    /\ SubSeq(call[2], 1, 3) = "B2b"

\* The indexes of the double quotes before index i of the line.
QuotesBefore(line, i) == {j \in 1..(i - 1) : At(line, j) = "\""}

\* The indexes of the commas outside an open pair of double quotes.
OutsideCommas(line) ==
    {i \in 1..Len(line) : At(line, i) = "," /\ Cardinality(QuotesBefore(line, i)) % 2 = 0}

\* The k-th piece of the line as cut at the commas outside quotes.
Piece(line, k) ==
    LET cuts == OutsideCommas(line)
        from == IF k = 1 THEN 1
                ELSE 1 + CHOOSE i \in cuts : Cardinality({j \in cuts : j < i}) = k - 2
        to   == IF k = Cardinality(cuts) + 1 THEN Len(line)
                ELSE (CHOOSE i \in cuts : Cardinality({j \in cuts : j < i}) = k - 1) - 1
    IN  SubSeq(line, from, to)

RECURSIVE RemoveQuotes(_)
RemoveQuotes(s) ==
    IF Len(s) = 0 THEN ""
    ELSE (IF At(s, 1) = "\"" THEN "" ELSE At(s, 1)) \o RemoveQuotes(SubSeq(s, 2, Len(s)))

\* C16: a line is split exactly at its commas outside quotes, a double quote
\* toggling inside/outside: it yields one field more than it has such commas,
\* and each field is the piece between two of them, commas inside quotes
\* included, without the double quotes and trimmed.
C16_SplitAtCommasOutsideQuotes ==
    Returned("parseLine") =>
        LET line == call[2]
            n    == Cardinality(OutsideCommas(line)) + 1
        IN  /\ Len(ret[1]) = n
            /\ \A k \in 1..n : ret[1][k] = Trim(RemoveQuotes(Piece(line, k)))

\* C16 happens: a line with a comma inside quotes, a comma outside quotes and
\* a field with a blank to trim has been split.
C16_Witness ==
    /\ Returned("parseLine")
    /\ OutsideCommas(call[2]) /= {}
    /\ \E i \in 1..Len(call[2]) : At(call[2], i) = "," /\ i \notin OutsideCommas(call[2])
    /\ \E k \in 1..Len(ret[1]) : Includes(ret[1][k], ",")
    /\ \E k \in 1..Len(ret[1]) :
          RemoveQuotes(Piece(call[2], k)) /= Trim(RemoveQuotes(Piece(call[2], k)))

\* The header names of a text: the fields of its first line.
HeadersOf(text) == parseLine(SplitLines(Trim(text))[1])

\* The lines of a text below the first that are not blank.
BodyOf(text) == SelectSeq(Tail(SplitLines(Trim(text))), LAMBDA l : Trim(l) /= "")

\* The field at position i of a line, the empty string when the line has
\* fewer fields.
FieldAt(line, i) == IF i <= Len(parseLine(line)) THEN parseLine(line)[i] ELSE ""

\* The fields of a record are exactly the header names, each once.
ExactlyTheHeaders(record, headers) ==
    /\ {record[j][1] : j \in 1..Len(record)} = {headers[i] : i \in 1..Len(headers)}
    /\ \A j1, j2 \in 1..Len(record) : record[j1][1] = record[j2][1] => j1 = j2

\* The positions whose header name does not occur again further right.
LastPositions(headers) ==
    {i \in 1..Len(headers) : \A j \in (i + 1)..Len(headers) : headers[j] /= headers[i]}

\* C15 as stated: every record has exactly the header names as fields and
\* holds, for the header at each position, the field at that position of its
\* line, the empty string when the line has no such field.
C15_RecordsByPosition ==
    Returned("parseCSV") =>
        LET headers == HeadersOf(call[2])
            body    == BodyOf(call[2])
        IN  /\ Len(ret[1]) = Len(body)
            /\ \A k \in 1..Len(ret[1]) :
                  /\ ExactlyTheHeaders(ret[1][k], headers)
                  /\ \A i \in 1..Len(headers) :
                        Get(ret[1][k], headers[i]) = FieldAt(body[k], i)

\* C15 amended: the same, with a header name that occurs more than once
\* holding the field at the last of its positions.
C15_RecordsByLastPosition ==
    Returned("parseCSV") =>
        LET headers == HeadersOf(call[2])
            body    == BodyOf(call[2])
        IN  /\ Len(ret[1]) = Len(body)
            /\ \A k \in 1..Len(ret[1]) :
                  /\ ExactlyTheHeaders(ret[1][k], headers)
                  /\ \A i \in LastPositions(headers) :
                        Get(ret[1][k], headers[i]) = FieldAt(body[k], i)

\* C15 happens: a text whose header line has a name twice has been parsed
\* into a record of a line with fewer fields than headers and a record of a
\* line with more.
C15_Witness ==
    /\ Returned("parseCSV")
    /\ LastPositions(HeadersOf(call[2])) /= 1..Len(HeadersOf(call[2]))
    /\ Len(ret[1]) = 2
    /\ Len(parseLine(BodyOf(call[2])[1])) < Len(HeadersOf(call[2]))
    /\ Len(parseLine(BodyOf(call[2])[2])) > Len(HeadersOf(call[2]))

\* The workbook that the loop over the files started from.
Loaded == IF Len(log) = 0 THEN workbook ELSE log[1].before

\* C11: when the template cannot be decoded the files are processed starting
\* from a new workbook without sheets, and the call does not throw.
C11_TemplateFailureNeverAborts ==
    (template = Corrupt /\ pc /= "load") =>
        /\ Loaded = book_new
        /\ pc /= "failed"

\* C12: a call that has ended has returned a workbook, whatever its files, also
\* when the workbook has no sheet.
C12_AlwaysReturnsDocument ==
    pc \notin {"load", "files"} => (pc = "done" /\ Len(output) = 1)

\* C13: a second call with the same templateBuffer and the same csvFiles ends
\* as the first did: it returns a workbook with the same sheets in the same
\* order and the same cells (type and value) and used ranges, or throws as the
\* first did. Nothing of the first call reaches the second.
C13_SameInputsSameDocument ==
    (Len(first) = 1 /\ pc \in {"done", "failed"}) =>
        /\ pc = first[1].pc
        /\ output = first[1].output

\* C13 happens: the second call has returned after creating a sheet from one
\* file and appending another file to a sheet.
C13_Witness ==
    /\ Len(first) = 1
    /\ pc = "done"
    /\ \E i, j \in Entries : log[i].path = "create" /\ log[j].path = "append"

\* The value of a column after the cleaning of place-of-supply columns.
Cleaned(hdr, raw) == IF PlaceOfSupplyHeader(hdr) THEN PrefixStripped(Trim(raw)) ELSE Trim(raw)

\* C17: every appended non-empty value gets a cell, and a value that is not a
\* number, also not one written with commas, gets the text cell of the trimmed
\* value after the cleaning of place-of-supply columns, commas kept.
C17_NonNumericDegradesToText ==
    \A i \in Entries : log[i].path = "append" =>
        \A w \in log[i].writes : w.raw /= "" =>
            /\ w.cell.t \in {"s", "n"}
            /\ ~MatchesNumeric(RemoveCommas(Cleaned(w.hdr, w.raw))) =>
                  w.cell = [t |-> "s", v |-> Trim(Cleaned(w.hdr, w.raw))]

\* The columns of the sheet that iteration i appended to whose header in row 0
\* is not blank.
HeaderColumns(i) ==
    LET sheet == log[i].before.Sheets[log[i].sheetName]
        range == decode_range(sheet)
    IN  {col \in range.s.c..range.e.c : HeaderText(sheet, col) /= ""}

\* C18: for every record appended to a sheet and every column of the sheet
\* with a non-blank header, exactly one cell is written at the record's row in
\* that column, and it is the empty text cell when the value resolved for the
\* column is empty.
C18_OneCellPerRecordAndColumn ==
    \A i \in Entries : log[i].path = "append" =>
        \A k \in 0..(Len(log[i].data) - 1), col \in HeaderColumns(i) :
            LET ws == {w \in log[i].writes : w.r = RowOfRecord(i, k) /\ w.c = col}
            IN  /\ Cardinality(ws) = 1
                /\ \A w \in ws : w.rec = k
                /\ \A w \in ws : w.raw = "" => w.cell = [t |-> "s", v |-> ""]
                /\ \A w \in ws :
                      After(i).Sheets[log[i].sheetName].cells[<<w.r, w.c>>] = w.cell

\* The value of the first entry of the registry, from entry m on, that is
\* associated with the column and whose source field the record has; the empty
\* string when there is none.
RECURSIVE FirstAlias(_, _, _, _)
FirstAlias(record, column, registry, m) ==
    IF m > Len(registry) THEN ""
    ELSE IF registry[m][2] = column /\ HasKey(record, registry[m][1])
    THEN Get(record, registry[m][1])
    ELSE FirstAlias(record, column, registry, m + 1)

\* C20: the value resolved for a record and a template column is the record's
\* field named like the column when the record has it, also when it is empty;
\* else the value of the first registry entry for the column whose source
\* field the record has; else empty.
C20_ResolutionPrecedence ==
    \A i \in Entries : log[i].path = "append" =>
        \A w \in log[i].writes :
            LET record == log[i].data[w.rec + 1]
            IN  w.raw = IF HasKey(record, w.hdr) THEN Get(record, w.hdr)
                        ELSE FirstAlias(record, w.hdr, columnMappings[log[i].sheetName], 1)

\* C20 happens: in one appended record a column was resolved to the empty
\* own field although the registry offered a non-empty source field, another
\* record got a column through the registry, and a column with neither was
\* resolved to empty.
C20_Witness ==
    \E i \in Entries :
        /\ log[i].path = "append"
        /\ \E w \in log[i].writes :
              LET record == log[i].data[w.rec + 1]
              IN  /\ HasKey(record, w.hdr)
                  /\ Get(record, w.hdr) = ""
                  /\ FirstAlias(record, w.hdr, columnMappings[log[i].sheetName], 1) /= ""
        /\ \E j \in Entries : \E w \in log[j].writes :
              /\ log[j].path = "append"
              /\ ~HasKey(log[j].data[w.rec + 1], w.hdr)
              /\ w.raw /= ""
        /\ \E w \in log[i].writes :
              /\ ~HasKey(log[i].data[w.rec + 1], w.hdr)
              /\ FirstAlias(log[i].data[w.rec + 1], w.hdr, columnMappings[log[i].sheetName], 1) = ""
              /\ w.raw = ""

\* The rows below the header in which the sheet holds a non-empty cell.
NonEmptyRows(sheet) ==
    {a[1] : a \in {b \in DOMAIN sheet.cells : b[1] >= 1 /\ sheet.cells[b].v /= ""}}

\* C21: a merge into an existing sheet starts one row below the last row
\* under the header that holds a non-empty cell, and at row 1 when there is
\* none; a row holding only empty text cells counts as empty, and the merge
\* writes nothing above its start row, so blank rows further up stay blank.
C21_StartsBelowLastNonEmptyRow ==
    \A i \in Entries : log[i].path = "append" =>
        LET rows == NonEmptyRows(log[i].before.Sheets[log[i].sheetName])
        IN  /\ log[i].start = IF rows = {} THEN 1 ELSE Max(rows) + 1
            /\ \A w \in log[i].writes : w.r >= log[i].start

\* The address lies inside the rows and columns of the range.
InRange(a, range) ==
    /\ range.s.r <= a[1] /\ a[1] <= range.e.r
    /\ range.s.c <= a[2] /\ a[2] <= range.e.c

\* C22: after a merge into an existing sheet the used range of the sheet ends
\* at the last row written, and every cell that was non-empty before the
\* merge and every cell written by it lies inside the range.
C22_UsedRangeCoversCells ==
    \A i \in Entries : log[i].path = "append" =>
        LET before == log[i].before.Sheets[log[i].sheetName]
            after  == After(i).Sheets[log[i].sheetName]
        IN  /\ Len(after.ref) = 1
            /\ after.ref[1].e.r = log[i].start + Len(log[i].data) - 1
            /\ \A a \in DOMAIN before.cells :
                  before.cells[a].v /= "" => InRange(a, after.ref[1])
            /\ \A w \in log[i].writes : InRange(<<w.r, w.c>>, after.ref[1])

\* The columns of the used range of the sheet that iteration i appended to
\* whose header cell in row 0 is missing or blank.
BlankColumns(i) ==
    LET sheet == log[i].before.Sheets[log[i].sheetName]
        range == decode_range(sheet)
    IN  {col \in range.s.c..range.e.c : HeaderText(sheet, col) = ""}

\* C23: a merge into an existing sheet resolves no value for a blank header,
\* and it writes or changes no cell in a column of the sheet's used range
\* whose header cell in row 0 is missing or blank.
C23_BlankHeaderColumnSkipped ==
    \A i \in Entries : log[i].path = "append" =>
        /\ \A w \in log[i].writes : w.hdr /= "" /\ w.c \notin BlankColumns(i)
        /\ \A a \in Changed(log[i].before.Sheets[log[i].sheetName],
                            After(i).Sheets[log[i].sheetName]) :
              a[2] \notin BlankColumns(i)

\* The names of a header line in the order in which they are first met.
FirstOccurrences(headers) ==
    LET firsts == {i \in 1..Len(headers) : \A j \in 1..(i - 1) : headers[j] /= headers[i]}
        nth(k) == CHOOSE i \in firsts : Cardinality({j \in firsts : j < i}) = k - 1
    IN  [k \in 1..Cardinality(firsts) |-> headers[nth(k)]]

\* C24: a file of a category without sheet adds exactly one sheet, named like
\* the category and placed last. Its row 0 holds the field names of the
\* records in the order in which the file's header line gives them, and row k
\* holds the trimmed values of record k under their own names as text, one row
\* per record; the sheet holds no other cell.
C24_NewSheetFromRecords ==
    \A i \in Entries : log[i].path = "create" =>
        LET name  == log[i].sheetName
            names == FirstOccurrences(HeadersOf(log[i].content))
            data  == log[i].data
            sheet == After(i).Sheets[name]
        IN  /\ name \notin DOMAIN log[i].before.Sheets
            /\ After(i).SheetNames = Append(log[i].before.SheetNames, name)
            /\ DOMAIN After(i).Sheets = DOMAIN log[i].before.Sheets \cup {name}
            /\ DOMAIN sheet.cells = (0..Len(data)) \X (0..(Len(names) - 1))
            /\ \A j \in 1..Len(names) :
                  /\ sheet.cells[<<0, j - 1>>] = [t |-> "s", v |-> names[j]]
                  /\ \A k \in 1..Len(data) :
                        /\ HasKey(data[k], names[j])
                        /\ sheet.cells[<<k, j - 1>>]
                             = [t |-> "s", v |-> Trim(Get(data[k], names[j]))]

\* The pairs <<i, j>> of positions of one header name, j being the last.
Duplicates(headers) ==
    {p \in (1..Len(headers)) \X LastPositions(headers) :
        p[1] < p[2] /\ headers[p[1]] = headers[p[2]]}

\* C25: for a header name that the header line has more than once, every
\* record holds the field of the last column with that name, the empty string
\* when the line has no field there, whatever the earlier columns hold.
C25_LastDuplicateColumnWins ==
    Returned("parseCSV") =>
        LET headers == HeadersOf(call[2])
            body    == BodyOf(call[2])
        IN  \A k \in 1..Len(ret[1]) : \A p \in Duplicates(headers) :
                LET fields == parseLine(body[k])
                    last   == IF p[2] <= Len(fields) THEN fields[p[2]] ELSE ""
                IN  /\ HasKey(ret[1][k], headers[p[2]])
                    /\ Get(ret[1][k], headers[p[2]]) = last

\* C25 happens: of a parsed text with a repeated header name, one record
\* holds the last column's field where the earlier column has another one,
\* and one holds the empty string where the earlier column has a field and
\* the last column is missing.
C25_Witness ==
    /\ Returned("parseCSV")
    /\ \E p \in Duplicates(HeadersOf(call[2])) :
          LET name == HeadersOf(call[2])[p[2]]
              body == BodyOf(call[2])
          IN  /\ \E k \in 1..Len(ret[1]) :
                    /\ Len(parseLine(body[k])) >= p[2]
                    /\ parseLine(body[k])[p[1]] /= parseLine(body[k])[p[2]]
                    /\ Get(ret[1][k], name) = parseLine(body[k])[p[2]]
                    /\ Get(ret[1][k], name) /= ""
              /\ \E k \in 1..Len(ret[1]) :
                    /\ Len(parseLine(body[k])) < p[2]
                    /\ Len(parseLine(body[k])) >= p[1]
                    /\ parseLine(body[k])[p[1]] /= ""
                    /\ Get(ret[1][k], name) = ""

\* A sequence without the elements equal to x.
Without(seq, x) == SelectSeq(seq, LAMBDA e : e /= x)

\* C26: a merge leaves every sheet other than the one of the file's category
\* as it was (cells, header row and used range), and leaves the sheets of the
\* document, the category's own sheet apart, the same and in the same order.
C26_OtherSheetsUnchanged ==
    \A i \in Entries : Merged(i) =>
        LET name   == log[i].sheetName
            before == log[i].before
            after  == After(i)
        IN  /\ DOMAIN after.Sheets \ {name} = DOMAIN before.Sheets \ {name}
            /\ Without(after.SheetNames, name) = Without(before.SheetNames, name)
            /\ \A n \in DOMAIN before.Sheets \ {name} :
                  after.Sheets[n] = before.Sheets[n]

\* C26 happens: one file has been merged into an existing sheet and changed
\* it, another has created its sheet, both in a document with other sheets.
C26_Witness ==
    /\ \E i \in Entries :
          /\ log[i].path = "append"
          /\ After(i).Sheets[log[i].sheetName] /= log[i].before.Sheets[log[i].sheetName]
          /\ DOMAIN log[i].before.Sheets \ {log[i].sheetName} /= {}
    /\ \E i \in Entries :
          /\ log[i].path = "create"
          /\ log[i].sheetName \in DOMAIN After(i).Sheets
          /\ DOMAIN log[i].before.Sheets /= {}

\* The last row of a sheet that holds a non-empty cell, -1 without one.
LastNonEmptyRow(sheet) ==
    LET rows == {a[1] : a \in {b \in DOMAIN sheet.cells : sheet.cells[b].v /= ""}}
    IN  IF rows = {} THEN 0 - 1 ELSE Max(rows)

\* C27: a merge into an existing sheet changes no cell of a row at or above
\* the last row that held a non-empty cell before the merge.
C27_RowsPresentArePreserved ==
    \A i \in Entries : log[i].path = "append" =>
        LET before == log[i].before.Sheets[log[i].sheetName]
            after  == After(i).Sheets[log[i].sheetName]
        IN  \A a \in Changed(before, after) : a[1] > LastNonEmptyRow(before)

-----------------------------------------------------------------------------
(* The token refresh of src/services/api.ts: concurrent calls of request,   *)
(* each step running from one await to the next.                            *)

Requests == 1..MaxRequests

\* if (!isRefreshing) with the test left out.
mayStartRefreshAlways == TRUE

\* line 50: if (!isRefreshing)
mayStartRefresh == ~isRefreshing

\* lines 9-12 with the callbacks of lines 60-64: every queued call sends its
\* retry. The list itself is emptied by the caller's refreshSubscribers' = <<>>.
onTokenRefreshed(reqs, subscribers) ==
    [id \in Requests |->
        IF \E k \in 1..Len(subscribers) : subscribers[k] = id
        THEN [reqs[id] EXCEPT !.pc = "retry", !.fetches = @ + 1]
        ELSE reqs[id]]

\* How refreshAccessToken can end (lines 14-35): without the item
\* 'refresh_token' it returns null at once; with it the server's answer
\* decides between the new token and null.
RefreshOutcomes == IF refresh_token THEN {"token", "null"} ELSE {"null"}

InitRefresh ==
    /\ Parked
    /\ call = <<>>
    /\ ret = <<>>
    /\ upload = NoUpload
    /\ isRefreshing = FALSE
    /\ refreshSubscribers = <<>>
    /\ requests = [id \in Requests |-> NoRequest]
    /\ refresh_token \in BOOLEAN

\* lines 38-46: request(endpoint, options) is called and sends its fetch. The
\* calls are numbered in the order in which they are made.
Call(id) ==
    /\ requests[id].pc = "idle"
    /\ \A j \in 1..(id - 1) : requests[j].pc /= "idle"
    /\ requests' = [requests EXCEPT ![id].pc = "fetch", ![id].fetches = 1]
    /\ UNCHANGED <<generateVars, call, ret, upload,
                   isRefreshing, refreshSubscribers, refresh_token>>

\* lines 46-81: the fetch of line 46 settles with the answer status
Response(id, status) ==
    /\ requests[id].pc = "fetch"
    /\ LET r == [requests[id] EXCEPT !.last = status]
       IN  IF status = "network"
           THEN /\ requests' = [requests EXCEPT ![id] = [r EXCEPT !.pc = "rejected"]]
                /\ UNCHANGED <<isRefreshing, refreshSubscribers>>
           ELSE IF status = "unauthorized" /\ ~r.isRetry
           THEN IF mayStartRefresh
                THEN /\ isRefreshing' = TRUE
                     /\ requests' = [requests EXCEPT ![id] =
                                        [r EXCEPT !.pc = "refresh", !.refreshes = @ + 1]]
                     /\ UNCHANGED refreshSubscribers
                ELSE /\ refreshSubscribers' = Append(refreshSubscribers, id)
                     /\ requests' = [requests EXCEPT ![id] = [r EXCEPT !.pc = "queued"]]
                     /\ UNCHANGED isRefreshing
           ELSE IF status /= "ok"
           THEN /\ requests' = [requests EXCEPT ![id] = [r EXCEPT !.pc = "rejected"]]
                /\ UNCHANGED <<isRefreshing, refreshSubscribers>>
           ELSE /\ requests' = [requests EXCEPT ![id] =
                                   [r EXCEPT !.pc = "resolved", !.value = "data"]]
                /\ UNCHANGED <<isRefreshing, refreshSubscribers>>
    /\ UNCHANGED <<generateVars, call, ret, upload, refresh_token>>

\* lines 52-57 and 68: refreshAccessToken has returned
RefreshDone(id, outcome) ==
    /\ requests[id].pc = "refresh"
    /\ outcome \in RefreshOutcomes
    /\ isRefreshing' = FALSE
    /\ IF outcome = "token"
       THEN /\ requests' = [onTokenRefreshed(requests, refreshSubscribers) EXCEPT
                               ![id].pc = "fetch", ![id].isRetry = TRUE,
                               ![id].fetches = @ + 1]
            /\ refreshSubscribers' = <<>>
            /\ UNCHANGED refresh_token
       ELSE /\ requests' = [requests EXCEPT ![id].pc = "resolved",
                                             ![id].value = "undefined"]
            /\ refresh_token' = FALSE
            /\ UNCHANGED refreshSubscribers
    /\ UNCHANGED <<generateVars, call, ret, upload>>

\* lines 62-63: the fetch of a queued callback settles; the body of every
\* answer of the server is JSON
RetryResponse(id, status) ==
    /\ requests[id].pc = "retry"
    /\ requests' = [requests EXCEPT
                      ![id].last = status,
                      ![id].pc = IF status = "network" THEN "rejected" ELSE "resolved",
                      ![id].value = IF status = "network" THEN "none"
                                    ELSE IF status = "ok" THEN "data" ELSE "errorBody"]
    /\ UNCHANGED <<generateVars, call, ret, upload,
                   isRefreshing, refreshSubscribers, refresh_token>>

NextRefresh ==
    \/ \E id \in Requests : Call(id)
    \/ \E id \in Requests, status \in Responses : Response(id, status)
    \/ \E id \in Requests, outcome \in {"token", "null"} : RefreshDone(id, outcome)
    \/ \E id \in Requests, status \in Responses : RetryResponse(id, status)

SpecRefresh == InitRefresh /\ [][NextRefresh]_vars

\* Every fetch under way settles and every continuation runs; nothing makes
\* the application call request again.
FairRefresh ==
    /\ SpecRefresh
    /\ \A id \in Requests :
          /\ WF_vars(\E status \in Responses : Response(id, status))
          /\ WF_vars(\E outcome \in {"token", "null"} : RefreshDone(id, outcome))
          /\ WF_vars(\E status \in Responses : RetryResponse(id, status))

\* The promise of call id has settled.
Finished(id) == requests[id].pc \in {"resolved", "rejected"}

\* C28: every call of request whose callback was queued in refreshSubscribers
\* during a refresh settles in the end, whether the refresh gives a token or
\* not, and once no refresh is under way no callback is left in the list.
C28_QueuedRequestsSettle ==
    /\ \A id \in Requests : (requests[id].pc = "queued") ~> Finished(id)
    /\ [](~isRefreshing => refreshSubscribers = <<>>)

\* The calls of request that wait for refreshAccessToken.
Refreshing == {id \in Requests : requests[id].pc = "refresh"}

\* C29: at most one call of request waits for refreshAccessToken at any time,
\* exactly when isRefreshing is set; a call that gets a 401 starts the refresh
\* only when isRefreshing is not set, and is queued when it is.
C29_OneRefreshInFlight ==
    /\ [](Cardinality(Refreshing) <= 1 /\ (isRefreshing <=> Refreshing /= {}))
    /\ [][\A id \in Requests :
            /\ (requests[id].pc /= "refresh" /\ requests'[id].pc = "refresh")
                  => (~isRefreshing /\ isRefreshing' /\ Refreshing = {})
            /\ (requests[id].pc = "fetch" /\ requests'[id].last = "unauthorized"
                 /\ ~requests[id].isRetry /\ isRefreshing)
                  => (requests'[id].pc = "queued" /\ UNCHANGED isRefreshing)]_vars

\* C29 happens: while one call waits for the refresh, two others that got a
\* 401 are queued behind it.
C29_Witness ==
    /\ Cardinality(Refreshing) = 1
    /\ Len(refreshSubscribers) >= 2
    /\ \A k \in 1..Len(refreshSubscribers) :
          /\ requests[refreshSubscribers[k]].pc = "queued"
          /\ requests[refreshSubscribers[k]].last = "unauthorized"

\* C30: a call of request sends at most two fetches to its endpoint and starts
\* at most one refresh, and when the retried fetch is answered with 401 the
\* call ends rejected, without another refresh.
C30_RetriesAtMostOnce ==
    \A id \in Requests :
        /\ requests[id].fetches <= 2
        /\ requests[id].refreshes <= 1
        /\ (Finished(id) /\ requests[id].fetches = 2
              /\ requests[id].last = "unauthorized")
             => requests[id].pc = "rejected"

====
